---- MODULE Spec2Model ----
(***************************************************************************)
(* Multi-chain wallet subsystem (src/multi_wallet_service.py, with the     *)
(* UserWalletKeys table of src/database.py and the key file                *)
(* wallet_encryption.key).                                                 *)
(*                                                                         *)
(* A service instance is one Python process: MultiWalletService() is built *)
(* once at import of main.py.  The database, the key file and the chains   *)
(* are shared by every instance started in the same deployment, so the     *)
(* steps of different instances interleave at each database statement,     *)
(* each file operation and each wait on a chain's endpoint or node.  Inside *)
(* one process a coroutine runs without interruption between awaits; a     *)
(* second coroutine of the same process that runs while a call is          *)
(* suspended acts as a second instance holding the same key does.          *)
(***************************************************************************)
EXTENDS Integers, FiniteSets, Sequences, TLC

\* ------------------------------------------------------------------ bounds
MaxKeys == 2
MaxPhrases == 2

Users == {"u1", "u2"}
Inst == {"i1", "i2"}

NoKey == 0
NoPhrase == 0

\* the key file after open(key_file, 'wb') and before the key is written:
\* present, with no content
EmptyFile == -1

\* ------------------------------------------------------------ chain tables
Chains == {"ethereum", "bsc", "polygon", "solana", "tron"}
\* the chains sends are asked for where instances run side by side: a
\* supported one and an unsupported one (sends on the other chains, with the
\* nonce of the EVM transfers, are run in SpecIO, SpecNonce and SpecCmd)
SendChains == {"tron", "dogecoin"}

\* BIP44 coin types of Bip44Coins.ETHEREUM / SOLANA / TRON
CoinEthereum == 60
CoinSolana == 501
CoinTron == 195

ErrExists == "You already have a wallet. Use /mywallet to view it."
ErrFailed == "Failed to generate wallet. Please try again."
ErrNotFound == "Wallet not found"
ErrUnsupported == "Unsupported blockchain"

VARIABLES
    keyFile,        \* content of wallet_encryption.key, NoKey when absent,
                    \* EmptyFile when opened for writing and not yet written
    keysMade,       \* number of Fernet.generate_key() calls so far
    pc,             \* per instance: where its process is
    encryption_key, \* per instance: self.encryption_key
    loc,            \* per instance: locals of the call in progress
    db,             \* rows of table user_wallet_keys
    phrasesMade,    \* number of mnemo.generate() calls so far
    ret,            \* the value returned by the call that completed last
    issued,         \* per user: phrases handed out by create_wallet
    deleted,        \* users for whom delete_wallet has returned True
    ledger          \* EVM transfers the chains' nodes have taken in

vars == <<keyFile, keysMade, pc, encryption_key, loc, db, phrasesMade, ret, issued, deleted, ledger>>

\* ------------------------------------------------------------ Secret cipher
\* Fernet is authenticated: a token decrypts only under the key that made it.
DecryptionError == -1

\* the phrase stored as it is, readable without any key
FernetEncrypt_Plaintext(key, plaintext) == [k |-> NoKey, pt |-> plaintext]

FernetEncrypt(key, plaintext) == [k |-> key, pt |-> plaintext]

FernetDecrypt(key, token) ==
    IF token.k = key THEN token.pt ELSE DecryptionError

\* ------------------------------------------------------- Seed and addresses
\* Bip39SeedGenerator(phrase).Generate() and Mnemonic.to_seed(phrase) are the
\* same PBKDF2 expansion with an empty passphrase: a function of the phrase.
Bip39Seed(phrase) == 2 * phrase + 1

\* Bip44.FromSeed(seed, coin)...: a function of the seed and the coin's path.
Bip44Address(seed, coin) == coin * 1000 + seed

NoAddress == 0

NoRet == [op |-> "none"]
NoLoc == [user |-> "-"]

\* ---------------------------------------------------- table user_wallet_keys
\* Column(String, unique=True) on user_id: an INSERT of a second row with the
\* same user_id raises IntegrityError at commit.
UniqueViolation_Unenforced(rows, row) == FALSE

UniqueViolation(rows, row) == \E r \in rows : r.user_id = row.user_id

\* db.query(UserWalletKeys).filter(user_id == u): rows of u, active or not
RowsOf(rows, u) == {r \in rows : r.user_id = u}

\* ...filter(user_id == u, is_active == True)
ActiveRowsOf(rows, u) == {r \in rows : r.user_id = u /\ r.is_active}

\* .first()
First(S) == CHOOSE r \in S : \A q \in S : r.id <= q.id

\* an address of its own for each of the three EVM chains
AddressDict_PerChain(eth, sol, tron) ==
    [c \in Chains |->
        CASE c = "solana" -> sol
          [] c = "tron" -> tron
          [] c = "bsc" -> eth + 1
          [] c = "polygon" -> eth + 2
          [] OTHER -> eth]

\* the "addresses" dictionary built from a row (or from fresh derivations)
AddressDict(eth, sol, tron) ==
    [c \in Chains |->
        CASE c = "solana" -> sol
          [] c = "tron" -> tron
          [] OTHER -> eth]

NoAddresses == [c \in Chains |-> NoAddress]

\* ------------------------------------------------------ _load_encryption_key
\* a start that never looks for the key file
LoadKeyCheck_AlwaysGenerate(i) ==
    /\ pc[i] \in {"down", "failed"}
    /\ pc' = [pc EXCEPT ![i] = "keygen"]
    /\ UNCHANGED <<keyFile, keysMade, encryption_key, loc, db, phrasesMade, ret, issued, deleted, ledger>>

\* os.path.exists(key_file): present -> read it; absent -> go on to generate.
\* A file that is present and still empty is read as b'': Fernet(b'') raises
\* ValueError in __init__ and the start fails. A failed process can be
\* started again.
LoadKeyCheck(i) ==
    /\ pc[i] \in {"down", "failed"}
    /\ IF keyFile = NoKey
       THEN /\ pc' = [pc EXCEPT ![i] = "keygen"]
            /\ UNCHANGED encryption_key
       ELSE IF keyFile = EmptyFile
       THEN /\ pc' = [pc EXCEPT ![i] = "failed"]
            /\ UNCHANGED encryption_key
       ELSE /\ encryption_key' = [encryption_key EXCEPT ![i] = keyFile]
            /\ pc' = [pc EXCEPT ![i] = "idle"]
    /\ UNCHANGED <<keyFile, keysMade, loc, db, phrasesMade, ret, issued, deleted, ledger>>

\* key = Fernet.generate_key(); open(key_file, 'wb'): the file is created, or
\* cut to no content when another start has written it meanwhile
LoadKeyGenerate(i) ==
    /\ pc[i] = "keygen"
    /\ keysMade < MaxKeys
    /\ keysMade' = keysMade + 1
    /\ keyFile' = EmptyFile
    /\ loc' = [loc EXCEPT ![i] = [user |-> "-", key |-> keysMade + 1]]
    /\ pc' = [pc EXCEPT ![i] = "keywrite"]
    /\ UNCHANGED <<encryption_key, db, phrasesMade, ret, issued, deleted, ledger>>

\* f.write(key), the file is closed, return key
LoadKeyWrite(i) ==
    /\ pc[i] = "keywrite"
    /\ keyFile' = loc[i].key
    /\ encryption_key' = [encryption_key EXCEPT ![i] = loc[i].key]
    /\ loc' = [loc EXCEPT ![i] = NoLoc]
    /\ pc' = [pc EXCEPT ![i] = "idle"]
    /\ UNCHANGED <<keysMade, db, phrasesMade, ret, issued, deleted, ledger>>

\* the process exits between calls; its in-memory key is gone
Stop(i) ==
    /\ pc[i] = "idle"
    /\ pc' = [pc EXCEPT ![i] = "down"]
    /\ encryption_key' = [encryption_key EXCEPT ![i] = NoKey]
    /\ UNCHANGED <<keyFile, keysMade, loc, db, phrasesMade, ret, issued, deleted, ledger>>

\* ------------------------------------------------------------- create_wallet
CreateFaults ==
    {"none", "generate", "derive_eth", "derive_sol", "derive_tron", "encrypt", "commit"}

CreateReturn(i, u, err, phrase, addrs, gen, fault) ==
    [op |-> "create_wallet", user |-> u, error |-> err,
     mnemonic |-> phrase, addresses |-> addrs, gen |-> gen, fault |-> fault]

WalletExists_ActiveOnly(rows, u) == ActiveRowsOf(rows, u) # {}

\* lines 72-77: existing_wallet, looked up without an is_active filter
WalletExists(rows, u) == RowsOf(rows, u) # {}

\* a create_wallet that answers a user who has a wallet with that wallet
CreateQuery_ReturnsExisting(i, u) ==
    /\ pc[i] = "idle"
    /\ IF WalletExists(db, u)
       THEN /\ LET wallet == First(RowsOf(db, u))
               IN  ret' = CreateReturn(i, u, "", wallet.encrypted_mnemonic.pt,
                                       AddressDict(wallet.eth_address, wallet.solana_address,
                                                   wallet.tron_address),
                                       NoPhrase, "none")
            /\ UNCHANGED <<pc, loc>>
       ELSE /\ pc' = [pc EXCEPT ![i] = "create"]
            /\ loc' = [loc EXCEPT ![i] = [user |-> u]]
            /\ UNCHANGED ret
    /\ UNCHANGED <<keyFile, keysMade, encryption_key, db, phrasesMade, issued, deleted, ledger>>

\* lines 72-79: the existence check
CreateQuery(i, u) ==
    /\ pc[i] = "idle"
    /\ IF WalletExists(db, u)
       THEN /\ ret' = CreateReturn(i, u, ErrExists, NoPhrase, NoAddresses, NoPhrase, "none")
            /\ UNCHANGED <<pc, loc>>
       ELSE /\ pc' = [pc EXCEPT ![i] = "create"]
            /\ loc' = [loc EXCEPT ![i] = [user |-> u]]
            /\ UNCHANGED ret
    /\ UNCHANGED <<keyFile, keysMade, encryption_key, db, phrasesMade, issued, deleted, ledger>>

\* create_wallet storing the row before the last derivation has succeeded
CreateOutcome_PersistsPartial(i, u, key, phrase, rows, fault) ==
    LET seed == Bip39Seed(phrase)
        eth_address == Bip44Address(seed, CoinEthereum)
        sol_address == Bip44Address(seed, CoinSolana)
        tron_address == IF fault = "derive_tron" THEN NoAddress
                        ELSE Bip44Address(seed, CoinTron)
        wallet_record ==
            [id |-> Cardinality(rows) + 1,
             user_id |-> u,
             encrypted_mnemonic |-> FernetEncrypt(key, phrase),
             eth_address |-> eth_address,
             solana_address |-> sol_address,
             tron_address |-> tron_address,
             is_active |-> TRUE]
    IN  IF UniqueViolation(rows, wallet_record) \/ fault \notin {"none", "derive_tron"}
        THEN [rows |-> rows,
              ret |-> CreateReturn(i, u, ErrFailed, NoPhrase, NoAddresses, phrase, fault)]
        ELSE IF fault = "derive_tron"
        THEN [rows |-> rows \cup {wallet_record},
              ret |-> CreateReturn(i, u, ErrFailed, NoPhrase, NoAddresses, phrase, fault)]
        ELSE [rows |-> rows \cup {wallet_record},
              ret |-> CreateReturn(i, u, "", phrase,
                                   AddressDict(eth_address, sol_address, tron_address),
                                   phrase, fault)]

\* create_wallet with the IntegrityError of the commit swallowed
CreateOutcome_SwallowsIntegrityError(i, u, key, phrase, rows, fault) ==
    LET seed == Bip39Seed(phrase)
        eth_address == Bip44Address(seed, CoinEthereum)
        sol_address == Bip44Address(seed, CoinSolana)
        tron_address == Bip44Address(seed, CoinTron)
        wallet_record ==
            [id |-> Cardinality(rows) + 1,
             user_id |-> u,
             encrypted_mnemonic |-> FernetEncrypt(key, phrase),
             eth_address |-> eth_address,
             solana_address |-> sol_address,
             tron_address |-> tron_address,
             is_active |-> TRUE]
    IN  IF fault # "none"
        THEN [rows |-> rows,
              ret |-> CreateReturn(i, u, ErrFailed, NoPhrase, NoAddresses, phrase, fault)]
        ELSE [rows |-> IF UniqueViolation(rows, wallet_record)
                       THEN rows ELSE rows \cup {wallet_record},
              ret |-> CreateReturn(i, u, "", phrase,
                                   AddressDict(eth_address, sol_address, tron_address),
                                   phrase, fault)]

\* lines 81-139: what the rest of create_wallet leaves in the table and returns,
\* when the step named by fault raises ("none": no step raises by itself)
CreateOutcome(i, u, key, phrase, rows, fault) ==
    LET seed == Bip39Seed(phrase)
        eth_address == Bip44Address(seed, CoinEthereum)
        sol_address == Bip44Address(seed, CoinSolana)
        tron_address == Bip44Address(seed, CoinTron)
        encrypted_mnemonic == FernetEncrypt(key, phrase)
        wallet_record ==
            [id |-> Cardinality(rows) + 1,
             user_id |-> u,
             encrypted_mnemonic |-> encrypted_mnemonic,
             eth_address |-> eth_address,
             solana_address |-> sol_address,
             tron_address |-> tron_address,
             is_active |-> TRUE]
    IN  IF fault # "none" \/ UniqueViolation(rows, wallet_record)
        THEN [rows |-> rows,
              ret |-> CreateReturn(i, u, ErrFailed, NoPhrase, NoAddresses, phrase, fault)]
        ELSE [rows |-> rows \cup {wallet_record},
              ret |-> CreateReturn(i, u, "", phrase,
                                   AddressDict(eth_address, sol_address, tron_address),
                                   phrase, fault)]

CreateFinish(i) ==
    /\ pc[i] = "create"
    /\ \E fault \in CreateFaults :
         LET u == loc[i].user
             made == IF fault = "generate" THEN phrasesMade ELSE phrasesMade + 1
             phrase == IF fault = "generate" THEN NoPhrase ELSE made
             out == CreateOutcome(i, u, encryption_key[i], phrase, db, fault)
         IN  /\ made <= MaxPhrases
             /\ phrasesMade' = made
             /\ db' = out.rows
             /\ ret' = out.ret
             /\ issued' = IF out.ret.error = ""
                          THEN [issued EXCEPT ![u] = @ \cup {out.ret.mnemonic}]
                          ELSE issued
    /\ pc' = [pc EXCEPT ![i] = "idle"]
    /\ loc' = [loc EXCEPT ![i] = NoLoc]
    /\ UNCHANGED <<keyFile, keysMade, encryption_key, deleted, ledger>>

\* ------------------------------------------------ get_wallet (and the reads)
\* get_wallet without the is_active filter
GetWalletResult_AnyRow(rows, u) ==
    IF RowsOf(rows, u) = {}
    THEN [found |-> FALSE, addresses |-> NoAddresses]
    ELSE LET wallet == First(RowsOf(rows, u))
         IN  [found |-> TRUE,
              addresses |-> AddressDict(wallet.eth_address, wallet.solana_address,
                                        wallet.tron_address)]

\* lines 151-176: the addresses of the user's active row, or None
GetWalletResult(rows, u) ==
    IF ActiveRowsOf(rows, u) = {}
    THEN [found |-> FALSE, addresses |-> NoAddresses]
    ELSE LET wallet == First(ActiveRowsOf(rows, u))
         IN  [found |-> TRUE,
              addresses |-> AddressDict(wallet.eth_address, wallet.solana_address,
                                        wallet.tron_address)]

\* get_wallet_with_mnemonic without the is_active filter
GetWalletWithMnemonicResult_AnyRow(key, rows, u) ==
    IF RowsOf(rows, u) = {}
    THEN [found |-> FALSE, mnemonic |-> NoPhrase, addresses |-> NoAddresses]
    ELSE LET wallet == First(RowsOf(rows, u))
             decrypted_mnemonic == FernetDecrypt(key, wallet.encrypted_mnemonic)
         IN  IF decrypted_mnemonic = DecryptionError
             THEN [found |-> FALSE, mnemonic |-> NoPhrase, addresses |-> NoAddresses]
             ELSE [found |-> TRUE, mnemonic |-> decrypted_mnemonic,
                   addresses |-> AddressDict(wallet.eth_address, wallet.solana_address,
                                             wallet.tron_address)]

\* lines 188-217: as get_wallet plus the decrypted phrase; a failed decryption
\* (InvalidToken) is caught by the except clause and gives None
GetWalletWithMnemonicResult(key, rows, u) ==
    IF ActiveRowsOf(rows, u) = {}
    THEN [found |-> FALSE, mnemonic |-> NoPhrase, addresses |-> NoAddresses]
    ELSE LET wallet == First(ActiveRowsOf(rows, u))
             decrypted_mnemonic == FernetDecrypt(key, wallet.encrypted_mnemonic)
         IN  IF decrypted_mnemonic = DecryptionError
             THEN [found |-> FALSE, mnemonic |-> NoPhrase, addresses |-> NoAddresses]
             ELSE [found |-> TRUE, mnemonic |-> decrypted_mnemonic,
                   addresses |-> AddressDict(wallet.eth_address, wallet.solana_address,
                                             wallet.tron_address)]

\* get_wallet decrypting the row and handing the phrase back
GetWallet_Decrypts(i, u) ==
    /\ pc[i] = "idle"
    /\ LET r == GetWalletWithMnemonicResult(encryption_key[i], db, u)
       IN  ret' = [op |-> "get_wallet", user |-> u, found |-> r.found,
                   addresses |-> r.addresses, mnemonic |-> r.mnemonic]
    /\ UNCHANGED <<keyFile, keysMade, pc, encryption_key, loc, db, phrasesMade, issued, deleted, ledger>>

GetWallet(i, u) ==
    /\ pc[i] = "idle"
    /\ LET r == GetWalletResult(db, u)
       IN  ret' = [op |-> "get_wallet", user |-> u,
                   found |-> r.found, addresses |-> r.addresses]
    /\ UNCHANGED <<keyFile, keysMade, pc, encryption_key, loc, db, phrasesMade, issued, deleted, ledger>>

GetWalletWithMnemonic(i, u) ==
    /\ pc[i] = "idle"
    /\ LET r == GetWalletWithMnemonicResult(encryption_key[i], db, u)
       IN  ret' = [op |-> "get_wallet_with_mnemonic", user |-> u,
                   found |-> r.found, mnemonic |-> r.mnemonic, addresses |-> r.addresses]
    /\ UNCHANGED <<keyFile, keysMade, pc, encryption_key, loc, db, phrasesMade, issued, deleted, ledger>>

\* ------------------------------------------------------------- delete_wallet
\* lines 427-433 and 440-441: look the active row up; none -> return False
DeleteQuery(i, u) ==
    /\ pc[i] = "idle"
    /\ IF ActiveRowsOf(db, u) = {}
       THEN /\ ret' = [op |-> "delete_wallet", user |-> u, result |-> FALSE]
            /\ UNCHANGED <<pc, loc>>
       ELSE /\ pc' = [pc EXCEPT ![i] = "delete"]
            /\ loc' = [loc EXCEPT ![i] = [user |-> u, id |-> First(ActiveRowsOf(db, u)).id]]
            /\ UNCHANGED ret
    /\ UNCHANGED <<keyFile, keysMade, encryption_key, db, phrasesMade, issued, deleted, ledger>>

\* a hard delete in place of the soft one
Deactivate_RemovesRow(rows, id) == {r \in rows : r.id # id}

\* wallet.is_active = False; db.commit(): UPDATE ... SET is_active WHERE id
Deactivate(rows, id) ==
    {IF r.id = id THEN [r EXCEPT !.is_active = FALSE] ELSE r : r \in rows}

\* lines 434-438
DeleteCommit(i) ==
    /\ pc[i] = "delete"
    /\ db' = Deactivate(db, loc[i].id)
    /\ ret' = [op |-> "delete_wallet", user |-> loc[i].user, result |-> TRUE]
    /\ pc' = [pc EXCEPT ![i] = "idle"]
    /\ loc' = [loc EXCEPT ![i] = NoLoc]
    /\ deleted' = deleted \cup {loc[i].user}
    /\ UNCHANGED <<keyFile, keysMade, encryption_key, phrasesMade, issued, ledger>>

\* ------------------------------------------------------- get_wallet_balances
\* what a chain's endpoint does with the balance request: a 200 answer with a
\* balance, a request that raises (unreachable, timed out), an answer with
\* another status, a 200 answer without the expected fields
EndpointAnswers == {"ok", "timeout", "http_error", "malformed"}

\* the endpoint situations a balance query is run in where several callers
\* run side by side
AnswerCases ==
    {[c \in Chains |-> "ok"],
     [c \in Chains |-> IF c = "tron" THEN "timeout" ELSE "ok"]}

\* lines 268-308: the order the chains are queried in
ChainOrder == <<"ethereum", "bsc", "polygon", "solana", "tron">>

NoAnswers == [c \in Chains |-> "-"]
NoBalances == [c \in Chains |-> "-"]
NoBalance == "-"

\* _get_*_balance: the balance on a 200 answer, 0.0 on anything else
ChainBalance(answer) == IF answer = "ok" THEN 5 ELSE 0

\* f"{balance:.6f}"
FormatBalance(x) == IF x = 5 THEN "5.000000" ELSE "0.000000"

\* the value get_wallet_balances returns; answers records what the endpoints did
BalancesReturn(u, found, balances, answers) ==
    [op |-> "get_wallet_balances", user |-> u, found |-> found,
     balances |-> balances, answers |-> answers]

\* The amount of a /send command is a Python float: the amounts of the model
\* are integers and NaN, the float that float("nan") gives (src/main.py line
\* 2595). Every comparison with NaN is false.
NaN == 1000
FloatLE(a, b) == a # NaN /\ b # NaN /\ a <= b
FloatLT(a, b) == a # NaN /\ b # NaN /\ a < b

\* src/main.py lines 2632-2636: float(balance_data["balance"]), 0.0 where
\* float raises
ParseBalance(text) == IF text = "5.000000" THEN 5 ELSE 0

\* the message send_command answers with when it does not send
CommandReply(u, text) == [op |-> "send_command", user |-> u, reply |-> text]

\* who awaits get_wallet_balances: a caller of the service, or send_command
\* (src/main.py lines 2533, 2622) with what it has parsed and checked so far
NoCommand == [called |-> FALSE]

\* src/main.py lines 2534-2574 (fewer than three arguments: the balances are
\* shown) and 2623-2654 (the balance check): the message the command ends
\* with, "" when it goes on to send
CommandBalanceReply(cmd, found, balances) ==
    IF ~found THEN "unable_to_fetch"
    ELSE IF ~cmd.full
    THEN (IF \A c \in Chains : ~FloatLT(0, ParseBalance(balances[c]))
          THEN "no_funds" ELSE "usage")
    ELSE IF FloatLT(ParseBalance(balances[cmd.chain]), cmd.amount)
    THEN "insufficient_balance"
    ELSE ""

\* get_wallet_balances hands its value to whoever awaited it: the caller of
\* the service gets it as the result; send_command answers the user or goes
\* on to the "Sending..." message and send_transaction (line 2672)
BalancesReturnTo(i, u, cmd, found, balances, answers) ==
    IF ~cmd.called
    THEN /\ ret' = BalancesReturn(u, found, balances, answers)
         /\ pc' = [pc EXCEPT ![i] = "idle"]
         /\ loc' = [loc EXCEPT ![i] = NoLoc]
    ELSE LET reply == CommandBalanceReply(cmd, found, balances)
         IN  IF reply # ""
             THEN /\ ret' = CommandReply(u, reply)
                  /\ pc' = [pc EXCEPT ![i] = "idle"]
                  /\ loc' = [loc EXCEPT ![i] = NoLoc]
             ELSE /\ ret' = NoRet
                  /\ pc' = [pc EXCEPT ![i] = "cmd_send"]
                  /\ loc' = [loc EXCEPT ![i] =
                                [user |-> u, chain |-> cmd.chain, to |-> cmd.to,
                                 amount |-> cmd.amount,
                                 checks |-> cmd.checks \o <<"balance">>,
                                 balance |-> balances[cmd.chain],
                                 answers |-> answers]]

\* lines 260-266: look the wallet up; None ends the call, otherwise the
\* requests to the chains' endpoints follow one by one
BalancesCall(i, u, cmd) ==
    IF ~GetWalletResult(db, u).found
    THEN BalancesReturnTo(i, u, cmd, FALSE, NoBalances, NoAnswers)
    ELSE /\ pc' = [pc EXCEPT ![i] = "balances"]
         /\ loc' = [loc EXCEPT ![i] =
                       [user |-> u, next |-> 1, waiting |-> FALSE,
                        balances |-> NoBalances, answers |-> NoAnswers,
                        cmd |-> cmd]]
         /\ ret' = NoRet

\* get_wallet_balances called by a caller of the service
BalancesStart(i, u) ==
    /\ pc[i] = "idle"
    /\ BalancesCall(i, u, NoCommand)
    /\ UNCHANGED <<keyFile, keysMade, encryption_key, db, phrasesMade, issued, deleted, ledger>>

\* await self._get_<chain>_balance(...): the request of the next chain goes out
BalanceRequest(i) ==
    /\ pc[i] = "balances"
    /\ ~loc[i].waiting
    /\ loc' = [loc EXCEPT ![i].waiting = TRUE]
    /\ UNCHANGED <<keyFile, keysMade, pc, encryption_key, db, phrasesMade, ret, issued, deleted, ledger>>

\* a chain whose endpoint fails ends the whole call with None
BalanceResponse_FailureEndsCall(i, answer) ==
    /\ pc[i] = "balances"
    /\ loc[i].waiting
    /\ LET l == loc[i]
           c == ChainOrder[l.next]
           balances == [l.balances EXCEPT ![c] = FormatBalance(ChainBalance(answer))]
           answers == [l.answers EXCEPT ![c] = answer]
       IN  IF answer # "ok"
           THEN BalancesReturnTo(i, l.user, l.cmd, FALSE, NoBalances, answers)
           ELSE IF l.next = Len(ChainOrder)
           THEN BalancesReturnTo(i, l.user, l.cmd, TRUE, balances, answers)
           ELSE /\ loc' = [loc EXCEPT ![i].balances = balances, ![i].answers = answers,
                                      ![i].next = @ + 1, ![i].waiting = FALSE]
                /\ UNCHANGED <<pc, ret>>
    /\ UNCHANGED <<keyFile, keysMade, encryption_key, db, phrasesMade, issued, deleted, ledger>>

\* the awaited request ends (answer, error or timeout) and the chain's entry
\* is written; after the last chain the dictionary is returned (line 310)
BalanceResponse(i, answer) ==
    /\ pc[i] = "balances"
    /\ loc[i].waiting
    /\ LET l == loc[i]
           c == ChainOrder[l.next]
           balances == [l.balances EXCEPT ![c] = FormatBalance(ChainBalance(answer))]
           answers == [l.answers EXCEPT ![c] = answer]
       IN  IF l.next = Len(ChainOrder)
           THEN BalancesReturnTo(i, l.user, l.cmd, TRUE, balances, answers)
           ELSE /\ loc' = [loc EXCEPT ![i].balances = balances, ![i].answers = answers,
                                      ![i].next = @ + 1, ![i].waiting = FALSE]
                /\ UNCHANGED <<pc, ret>>
    /\ UNCHANGED <<keyFile, keysMade, encryption_key, db, phrasesMade, issued, deleted, ledger>>

\* the awaited request ends as one of the endpoint situations of AnswerCases
\* has it, given what the endpoints asked before have done
BalanceResponseCase(i) ==
    /\ pc[i] = "balances"
    /\ \E answers \in AnswerCases :
         /\ \A c \in Chains : loc[i].answers[c] \in {"-", answers[c]}
         /\ BalanceResponse(i, answers[ChainOrder[loc[i].next]])

\* ---------------------------------------------------------- send_transaction
\* the recipient address as the chain's library sees it, and the amounts
Recipients == {"valid", "malformed"}
Amounts == {-1, 0, 1}

EvmChains == {"ethereum", "bsc", "polygon"}

\* what can go wrong in the process itself: the session query, the key
\* derivation, the signing, the handler behind logger.error
LoadFaults == {"none", "db", "decrypt"}
SendFaults == {"none", "derive", "sign", "logging"}

\* what the chain's node does with the lookups and the broadcast; lost_reply:
\* the broadcast reaches the node and the answer never arrives
NetOutcomes == {"accepted", "rejected", "unreachable", "lost_reply"}

NoNet == "-"

\* no nonce looked up, no chainId key in the transaction dictionary
NoNonce == -1
NoChainId == 0

\* 'chainId' of the transaction dictionaries of the BSC and Polygon senders
BscChainId == 56
PolygonChainId == 137

\* what the sender derived, looked up and signed; signer and nonce are
\* NoAddress and NoNonce as long as the sender has not got that far
NoTx == [signer |-> NoAddress, nonce |-> NoNonce, chain_id |-> NoChainId]
NoTxHash == ""
TxHash == "tx_hash"

\* the dictionary send_transaction returns; events lists, in order, what the
\* call did on the way, fault and net what happened to it
SendReturn(u, chain, to, amount, ok, err, tx_hash, from, events, fault, net, tx) ==
    [op |-> "send_transaction", user |-> u, chain |-> chain, to |-> to,
     amount |-> amount, success |-> ok, error |-> err, tx_hash |-> tx_hash,
     from |-> from, events |-> events, fault |-> fault, net |-> net,
     signer |-> tx.signer, nonce |-> tx.nonce, chain_id |-> tx.chain_id]

\* lines 460-479: load and decrypt (a failure of either is caught in
\* get_wallet_with_mnemonic and gives None), then pick the chain's sender.
\* fault "db": the session query raises; fault "decrypt": the stored token is
\* not one Fernet accepts. While the sender runs nothing has been returned;
\* k is the sender's next step, tx what it has derived and looked up so far.
SendTransactionCall(i, u, chain, to, amount, fault) ==
    /\ fault = "decrypt" => ActiveRowsOf(db, u) # {}
    /\ LET wallet_data ==
               IF fault # "none"
               THEN [found |-> FALSE, mnemonic |-> NoPhrase, addresses |-> NoAddresses]
               ELSE GetWalletWithMnemonicResult(encryption_key[i], db, u)
           events == IF fault # "db" /\ ActiveRowsOf(db, u) # {}
                     THEN <<"query", "decrypt">> ELSE <<"query">>
       IN  IF ~wallet_data.found
           THEN /\ ret' = SendReturn(u, chain, to, amount, FALSE, ErrNotFound,
                                     NoTxHash, NoAddress, events, fault, NoNet, NoTx)
                /\ pc' = [pc EXCEPT ![i] = "idle"]
                /\ loc' = [loc EXCEPT ![i] = NoLoc]
           ELSE IF chain \notin Chains
           THEN /\ ret' = SendReturn(u, chain, to, amount, FALSE, ErrUnsupported,
                                     NoTxHash, NoAddress, events, fault, NoNet, NoTx)
                /\ pc' = [pc EXCEPT ![i] = "idle"]
                /\ loc' = [loc EXCEPT ![i] = NoLoc]
           ELSE /\ pc' = [pc EXCEPT ![i] = "send"]
                /\ loc' = [loc EXCEPT ![i] =
                              [user |-> u, chain |-> chain, to |-> to, amount |-> amount,
                               mnemonic |-> wallet_data.mnemonic,
                               from |-> wallet_data.addresses[chain],
                               events |-> events, k |-> 1, tx |-> NoTx]]
                /\ ret' = NoRet
    /\ UNCHANGED <<keyFile, keysMade, encryption_key, db, phrasesMade, issued, deleted, ledger>>

\* send_transaction called while the instance is doing nothing else
SendTransactionLoad(i, u, chain, to, amount, fault) ==
    /\ pc[i] = "idle"
    /\ SendTransactionCall(i, u, chain, to, amount, fault)

\* a send of a positive amount to a well-formed address
SendLoad(i, u, chain) == SendTransactionLoad(i, u, chain, "valid", 1, "none")

\* _send_*_transaction: what the chain's sender does, in the order of its code.
\* Ethereum, BSC, Polygon: derive the key, look the nonce and the gas price up,
\* to_wei, sign_transaction, send_raw_transaction. Solana and Tron: derive the
\* key, build the transfer (the recipient is parsed here), fetch the reference
\* block or blockhash, sign, broadcast. The sender waits for the chain's node
\* at each net_ step; the other steps are computed in the process.
AdapterSteps(chain) ==
    IF chain \in EvmChains
    THEN <<"derive", "net_nonce", "net_gas_price", "to_wei", "sign", "net_broadcast">>
    ELSE <<"derive", "build_transfer", "net_block_ref", "sign", "net_broadcast">>

\* the steps that contact the chain's node
NetworkSteps == {"net_nonce", "net_gas_price", "net_block_ref", "net_broadcast"}

\* does the step raise
StepFails(step, chain, to, amount, net, fault) ==
    IF step = "derive" THEN fault = "derive"
    ELSE IF step \in {"net_nonce", "net_gas_price", "net_block_ref"} THEN net = "unreachable"
    ELSE IF step = "to_wei" THEN amount = NaN \/ amount < 0
    ELSE IF step = "build_transfer"
         THEN to = "malformed" \/ amount = NaN \/ (chain = "solana" /\ amount < 0)
    ELSE IF step = "sign"
         THEN fault = "sign" \/ (chain \in EvmChains /\ to = "malformed")
    ELSE net # "accepted" \/ (chain = "tron" /\ amount <= 0)

\* the position of the first step that raises, Len + 1 when none does
RECURSIVE FirstFailure(_, _, _, _, _, _, _)
FirstFailure(steps, k, chain, to, amount, net, fault) ==
    IF k > Len(steps) THEN k
    ELSE IF StepFails(steps[k], chain, to, amount, net, fault) THEN k
    ELSE FirstFailure(steps, k + 1, chain, to, amount, net, fault)

\* str(e) of the exception the step raised
StepError(step, net) ==
    IF step = "net_broadcast" THEN (IF net = "lost_reply" THEN "timeout" ELSE "rejected")
    ELSE IF step \in NetworkSteps THEN "unreachable"
    ELSE step

\* Mnemonic("english").to_seed(mnemonic) with a passphrase create_wallet did not use
MnemonicToSeed_OtherPassphrase(phrase) == 2 * phrase + 2

\* Mnemonic("english").to_seed(mnemonic): PBKDF2 of the phrase, empty passphrase
MnemonicToSeed(phrase) == 2 * phrase + 1

\* Bip44Coins.ETHEREUM in the three EVM senders, SOLANA, TRON
SenderCoin(chain) ==
    IF chain \in EvmChains THEN CoinEthereum
    ELSE IF chain = "solana" THEN CoinSolana
    ELSE CoinTron

\* the address of the key the sender derives from the decrypted phrase
SignerAddress(chain, mnemonic) == Bip44Address(MnemonicToSeed(mnemonic), SenderCoin(chain))

\* the 'chainId' the sender puts into the transaction it signs
SignedChainId(chain) ==
    IF chain = "bsc" THEN BscChainId
    ELSE IF chain = "polygon" THEN PolygonChainId
    ELSE NoChainId

\* w3.eth.get_transaction_count(address): the transfers of the address that
\* are in a block (block identifier "latest")
TransactionCount(txs, chain, address) ==
    Cardinality({t \in txs : t.chain = chain /\ t.from = address /\ t.mined})

\* the next step at or after k that waits for the chain's node
RECURSIVE NextWait(_, _)
NextWait(steps, k) ==
    IF steps[k] \in NetworkSteps THEN k ELSE NextWait(steps, k + 1)

\* The sender runs from step l.k up to its next wait for the node, which the
\* node answers as net says, or to the first step that raises. Every exception
\* is caught, logged and turned into {"success": False, "error": str(e)}; a
\* failing log handler is dealt with inside logging and changes nothing. The
\* nonce is the count the node gives when it is asked. A transfer whose
\* broadcast was taken, or got through with its answer lost, is with the
\* chain's node. done: the sender has returned.
SendOutcome(l, txs, net, fault) ==
    LET steps == AdapterSteps(l.chain)
        e == NextWait(steps, l.k)
        f == FirstFailure(SubSeq(steps, 1, e), l.k, l.chain, l.to, l.amount, net, fault)
        evm == l.chain \in EvmChains
        last == e = Len(steps)
        passed(step) == \E j \in l.k..(f - 1) : steps[j] = step
        tx == [signer |-> IF passed("derive")
                          THEN SignerAddress(l.chain, l.mnemonic) ELSE l.tx.signer,
               nonce |-> IF passed("net_nonce")
                         THEN TransactionCount(txs, l.chain, l.from) ELSE l.tx.nonce,
               chain_id |-> IF evm /\ passed("sign")
                            THEN SignedChainId(l.chain) ELSE l.tx.chain_id]
        delivered == evm /\ last /\ (f > e \/ (f = e /\ net = "lost_reply"))
    IN  [done |-> f <= e \/ last,
         ret |-> IF f > e
                 THEN SendReturn(l.user, l.chain, l.to, l.amount, TRUE, "", TxHash,
                                 l.from, l.events \o SubSeq(steps, l.k, e), fault, net, tx)
                 ELSE SendReturn(l.user, l.chain, l.to, l.amount, FALSE,
                                 StepError(steps[f], net), NoTxHash,
                                 l.from, l.events \o SubSeq(steps, l.k, f), fault, net, tx),
         loc |-> [l EXCEPT !.k = e + 1,
                           !.events = l.events \o SubSeq(steps, l.k, e),
                           !.tx = tx],
         txs |-> IF delivered
                 THEN txs \cup {[chain |-> l.chain, from |-> tx.signer,
                                 nonce |-> tx.nonce, mined |-> FALSE]}
                 ELSE txs]

\* a fault of the derivation or of the signing strikes where that step is run
FaultInReach(l, fault) ==
    fault \in {"derive", "sign"} =>
        \E j \in l.k..NextWait(AdapterSteps(l.chain), l.k) : AdapterSteps(l.chain)[j] = fault

\* a sender whose failure leaves the call without a result
SendStep_FailureWithoutResult(i, net, fault) ==
    /\ pc[i] = "send"
    /\ FaultInReach(loc[i], fault)
    /\ LET out == SendOutcome(loc[i], ledger, net, fault)
       IN  /\ IF out.done
              THEN /\ ret' = IF out.ret.success THEN out.ret ELSE NoRet
                   /\ pc' = [pc EXCEPT ![i] = "idle"]
                   /\ loc' = [loc EXCEPT ![i] = NoLoc]
              ELSE /\ loc' = [loc EXCEPT ![i] = out.loc]
                   /\ UNCHANGED <<pc, ret>>
           /\ ledger' = out.txs
    /\ UNCHANGED <<keyFile, keysMade, encryption_key, db, phrasesMade, issued, deleted>>

\* a sender that marks the wallet used in the table
SendStep_WritesRecord(i, net, fault) ==
    /\ pc[i] = "send"
    /\ FaultInReach(loc[i], fault)
    /\ LET out == SendOutcome(loc[i], ledger, net, fault)
       IN  /\ IF out.done
              THEN /\ ret' = out.ret
                   /\ pc' = [pc EXCEPT ![i] = "idle"]
                   /\ loc' = [loc EXCEPT ![i] = NoLoc]
              ELSE /\ loc' = [loc EXCEPT ![i] = out.loc]
                   /\ UNCHANGED <<pc, ret>>
           /\ ledger' = out.txs
    /\ db' = {IF r.user_id = loc[i].user THEN [r EXCEPT !.is_active = FALSE] ELSE r : r \in db}
    /\ UNCHANGED <<keyFile, keysMade, encryption_key, phrasesMade, issued, deleted>>

\* _send_*_transaction from one wait for the node to the next: the sender
\* goes on, or returns its result at the first failure and after the broadcast
SendStep(i, net, fault) ==
    /\ pc[i] = "send"
    /\ FaultInReach(loc[i], fault)
    /\ LET out == SendOutcome(loc[i], ledger, net, fault)
       IN  /\ IF out.done
              THEN /\ ret' = out.ret
                   /\ pc' = [pc EXCEPT ![i] = "idle"]
                   /\ loc' = [loc EXCEPT ![i] = NoLoc]
              ELSE /\ loc' = [loc EXCEPT ![i] = out.loc]
                   /\ UNCHANGED <<pc, ret>>
           /\ ledger' = out.txs
    /\ UNCHANGED <<keyFile, keysMade, encryption_key, db, phrasesMade, issued, deleted>>

\* bound on the transfers of one address a chain puts into blocks
MaxMined == 1

\* the chain puts a waiting transfer into a block: the one whose nonce is the
\* sender's next
Mine(t) ==
    /\ t \in ledger
    /\ ~t.mined
    /\ t.nonce = TransactionCount(ledger, t.chain, t.from)
    /\ t.nonce < MaxMined
    /\ ledger' = (ledger \ {t}) \cup {[t EXCEPT !.mined = TRUE]}
    /\ UNCHANGED <<keyFile, keysMade, pc, encryption_key, loc, db, phrasesMade, ret, issued, deleted>>

\* ------------------------------------------------- send_command (src/main.py)
\* what the user types after /send: the chain, the amount, the recipient
CommandChains == {"ethereum", "tron", "dogecoin"}
AmountTexts == {"abc", "nan", "0", "1", "6"}

\* line 2595: float(context.args[1]); ok is FALSE where float raises ValueError
ParseFloat(text) ==
    CASE text = "nan" -> [ok |-> TRUE, value |-> NaN]
      [] text = "0" -> [ok |-> TRUE, value |-> 0]
      [] text = "1" -> [ok |-> TRUE, value |-> 1]
      [] text = "6" -> [ok |-> TRUE, value |-> 6]
      [] OTHER -> [ok |-> FALSE, value |-> 0]

\* lines 2519-2619: the wallet lookup, the argument count, the amount parse,
\* the chain check, the amount check. full: three arguments were given.
\* checks lists the checks that let the command through, in order.
SendCommandStart(i, u, full, chain, text, to) ==
    /\ pc[i] = "idle"
    /\ LET wallet_data == GetWalletResult(db, u)
           parsed == ParseFloat(text)
           reply == IF ~wallet_data.found THEN "no_wallet"
                    ELSE IF ~full THEN ""
                    ELSE IF ~parsed.ok THEN "invalid_amount"
                    ELSE IF chain \notin Chains THEN "unsupported_chain"
                    ELSE IF FloatLE(parsed.value, 0) THEN "amount_not_positive"
                    ELSE ""
       IN  IF reply # ""
           THEN /\ ret' = CommandReply(u, reply)
                /\ UNCHANGED <<pc, loc>>
           ELSE /\ pc' = [pc EXCEPT ![i] = "cmd_balances"]
                /\ loc' = [loc EXCEPT ![i] =
                              [user |-> u,
                               cmd |-> [called |-> TRUE, full |-> full, chain |-> chain,
                                        to |-> to, amount |-> parsed.value,
                                        checks |-> IF full
                                                   THEN <<"wallet", "chain", "amount">>
                                                   ELSE <<"wallet">>]]]
                /\ ret' = NoRet
    /\ UNCHANGED <<keyFile, keysMade, encryption_key, db, phrasesMade, issued, deleted, ledger>>

\* lines 2533 and 2622: await get_wallet_balances(user_id), which looks the
\* wallet up again
SendCommandBalances(i) ==
    /\ pc[i] = "cmd_balances"
    /\ BalancesCall(i, loc[i].user, loc[i].cmd)
    /\ UNCHANGED <<keyFile, keysMade, encryption_key, db, phrasesMade, issued, deleted, ledger>>

\* lines 2665-2672: the "Sending..." message, then send_transaction with the
\* command's arguments; its result is what lines 2674-2690 report
SendCommandSend(i, fault) ==
    /\ pc[i] = "cmd_send"
    /\ SendTransactionCall(i, loc[i].user, loc[i].chain, loc[i].to, loc[i].amount, fault)

\* -------------------------------------------------------------------- model
Init ==
    /\ keyFile = NoKey
    /\ keysMade = 0
    /\ pc = [i \in Inst |-> "down"]
    /\ encryption_key = [i \in Inst |-> NoKey]
    /\ loc = [i \in Inst |-> NoLoc]
    /\ db = {}
    /\ phrasesMade = 0
    /\ ret = NoRet
    /\ issued = [u \in Users |-> {}]
    /\ deleted = {}
    /\ ledger = {}

\* the instance and the user of the specifications that follow one call
\* closely; where instances run side by side the balances are asked for
\* this user
IOInst == {"i1"}
IOUsers == {"u1"}

Next ==
    \/ \E i \in Inst : LoadKeyCheck(i)
    \/ \E i \in Inst : LoadKeyGenerate(i)
    \/ \E i \in Inst : LoadKeyWrite(i)
    \/ \E i \in Inst : Stop(i)
    \/ \E i \in Inst, u \in Users : CreateQuery(i, u)
    \/ \E i \in Inst : CreateFinish(i)
    \/ \E i \in Inst, u \in Users : GetWallet(i, u)
    \/ \E i \in Inst, u \in Users : GetWalletWithMnemonic(i, u)
    \/ \E i \in Inst, u \in Users : DeleteQuery(i, u)
    \/ \E i \in Inst : DeleteCommit(i)
    \/ \E i \in Inst, u \in IOUsers : BalancesStart(i, u)
    \/ \E i \in Inst : BalanceRequest(i)
    \/ \E i \in Inst : BalanceResponseCase(i)
    \/ \E i \in Inst, u \in Users, chain \in SendChains : SendLoad(i, u, chain)
    \/ \E i \in Inst, net \in NetOutcomes : SendStep(i, net, "none")

Spec == Init /\ [][Next]_vars

\* Service starts that do not overlap: while an instance that found the key
\* file absent has not yet written its key, no other step is taken.
SerialStart == \A i \in Inst : pc[i] \notin {"keygen", "keywrite"}

NextSeq ==
    \/ \E i \in Inst : LoadKeyGenerate(i)
    \/ \E i \in Inst : LoadKeyWrite(i)
    \/ \E i \in Inst : SerialStart /\ LoadKeyCheck(i)
    \/ \E i \in Inst : SerialStart /\ Stop(i)
    \/ \E i \in Inst, u \in Users : SerialStart /\ CreateQuery(i, u)
    \/ \E i \in Inst : SerialStart /\ CreateFinish(i)
    \/ \E i \in Inst, u \in Users : SerialStart /\ GetWallet(i, u)
    \/ \E i \in Inst, u \in Users : SerialStart /\ GetWalletWithMnemonic(i, u)
    \/ \E i \in Inst, u \in Users : SerialStart /\ DeleteQuery(i, u)
    \/ \E i \in Inst : SerialStart /\ DeleteCommit(i)
    \/ \E i \in Inst, u \in IOUsers : SerialStart /\ BalancesStart(i, u)
    \/ \E i \in Inst : SerialStart /\ BalanceRequest(i)
    \/ \E i \in Inst : SerialStart /\ BalanceResponseCase(i)
    \/ \E i \in Inst, u \in Users, chain \in SendChains : SerialStart /\ SendLoad(i, u, chain)
    \/ \E i \in Inst, net \in NetOutcomes : SerialStart /\ SendStep(i, net, "none")

SpecSeq == Init /\ [][NextSeq]_vars

\* One instance serving one user, with every endpoint behaviour of a balance
\* query and every chain, recipient and amount of a send.
IOChains == Chains \cup {"dogecoin"}

NextIO ==
    \/ \E i \in IOInst : LoadKeyCheck(i)
    \/ \E i \in IOInst : LoadKeyGenerate(i)
    \/ \E i \in IOInst : LoadKeyWrite(i)
    \/ \E i \in IOInst, u \in IOUsers : CreateQuery(i, u)
    \/ \E i \in IOInst : CreateFinish(i)
    \/ \E i \in IOInst, u \in IOUsers : GetWallet(i, u)
    \/ \E i \in IOInst, u \in IOUsers : DeleteQuery(i, u)
    \/ \E i \in IOInst : DeleteCommit(i)
    \/ \E i \in IOInst, u \in IOUsers : BalancesStart(i, u)
    \/ \E i \in IOInst : BalanceRequest(i)
    \/ \E i \in IOInst, answer \in EndpointAnswers : BalanceResponse(i, answer)
    \/ \E i \in IOInst, u \in IOUsers, chain \in IOChains, to \in Recipients,
          amount \in Amounts, fault \in LoadFaults :
          SendTransactionLoad(i, u, chain, to, amount, fault)
    \/ \E i \in IOInst, net \in NetOutcomes, fault \in SendFaults : SendStep(i, net, fault)

SpecIO == Init /\ [][NextIO]_vars

\* One instance and one user sending to a well-formed address on the EVM
\* chains, with the chains putting the transfers into blocks while the
\* senders run.
NextNonce ==
    \/ \E i \in IOInst : LoadKeyCheck(i)
    \/ \E i \in IOInst : LoadKeyGenerate(i)
    \/ \E i \in IOInst : LoadKeyWrite(i)
    \/ \E i \in IOInst, u \in IOUsers : CreateQuery(i, u)
    \/ \E i \in IOInst : CreateFinish(i)
    \/ \E i \in IOInst, u \in IOUsers, chain \in EvmChains :
          SendTransactionLoad(i, u, chain, "valid", 1, "none")
    \/ \E i \in IOInst, net \in NetOutcomes : SendStep(i, net, "none")
    \/ \E t \in ledger : Mine(t)

SpecNonce == Init /\ [][NextNonce]_vars

\* An instance serving one user's /send commands, with every argument the
\* user can type and the endpoint situations of AnswerCases, while the
\* instances create and delete the user's wallet.
NextCmd ==
    \/ \E i \in Inst : LoadKeyCheck(i)
    \/ \E i \in Inst : LoadKeyGenerate(i)
    \/ \E i \in Inst : LoadKeyWrite(i)
    \/ \E i \in IOInst, u \in IOUsers : CreateQuery(i, u)
    \/ \E i \in IOInst : CreateFinish(i)
    \/ \E i \in Inst, u \in IOUsers : DeleteQuery(i, u)
    \/ \E i \in Inst : DeleteCommit(i)
    \/ \E i \in IOInst, u \in IOUsers, full \in BOOLEAN, chain \in CommandChains,
          text \in AmountTexts, to \in Recipients :
          SendCommandStart(i, u, full, chain, text, to)
    \/ \E i \in IOInst : SendCommandBalances(i)
    \/ \E i \in IOInst : BalanceRequest(i)
    \/ \E i \in IOInst : BalanceResponseCase(i)
    \/ \E i \in IOInst, fault \in LoadFaults : SendCommandSend(i, fault)
    \/ \E i \in IOInst, net \in NetOutcomes, fault \in SendFaults : SendStep(i, net, fault)

SpecCmd == Init /\ [][NextCmd]_vars

\* ------------------------------------------------------------------- claims
\* what the claims say of the table, stated on its rows
HasRow(u) == \E r \in db : r.user_id = u
HasActiveRow(u) == \E r \in db : r.user_id = u /\ r.is_active

\* a create_wallet call that passed the existence check, generated its own
\* phrase and then lost at the commit to another call's insert
LostRace(r) ==
    /\ r.op = "create_wallet"
    /\ r.fault = "none"
    /\ r.error # ""
    /\ r.gen # NoPhrase

\* C1: in every reachable state each user_id has at most one active wallet record.
C1_AtMostOneActiveWallet ==
    \A u \in Users : Cardinality({r \in db : r.user_id = u /\ r.is_active}) <= 1

\* two create_wallet calls for one user overlapped, and the table holds one row
C1_Witness ==
    /\ LostRace(ret)
    /\ Cardinality({r \in db : r.user_id = ret.user /\ r.is_active}) = 1

\* C2: of the concurrent create_wallet calls for one user exactly one returns a
\* phrase; a call that lost returns an error and its generated secret is not stored.
C2_ConcurrentCreateSucceedsOnce ==
    /\ \A u \in Users : Cardinality(issued[u]) <= 1
    /\ \A u \in Users : \A r \in db :
          r.user_id = u => r.encrypted_mnemonic.pt \in issued[u]
    /\ LostRace(ret) =>
          /\ Cardinality(issued[ret.user]) = 1
          /\ ret.mnemonic = NoPhrase
          /\ \A r \in db : r.encrypted_mnemonic.pt # ret.gen
    /\ (ret.op = "create_wallet" /\ ret.error = "") =>
          /\ ret.mnemonic # NoPhrase
          /\ issued[ret.user] = {ret.mnemonic}

\* the loser of a race has returned, after the winner's phrase was issued
C2_Witness ==
    /\ LostRace(ret)
    /\ issued[ret.user] # {}
    /\ ret.gen \notin issued[ret.user]

\* C3: the call that loses the race receives the already-exists error, as a
\* create on an existing wallet does, and not a generic failure.
C3_LoserGetsAlreadyExists ==
    LostRace(ret) => ret.error = ErrExists

\* C4: create_wallet for a user who already has a wallet returns the
\* already-exists error and no phrase, and leaves the table as it was.
C4_CreateOnExistingRejected ==
    [][\A i \in Inst, u \in Users :
          (HasRow(u) /\ CreateQuery(i, u)) =>
              /\ ret'.op = "create_wallet"
              /\ ret'.user = u
              /\ ret'.error = ErrExists
              /\ ret'.mnemonic = NoPhrase
              /\ db' = db
              /\ pc'[i] = "idle"
              /\ phrasesMade' = phrasesMade]_vars

\* a create on an existing, still active wallet has been refused
C4_Witness ==
    /\ ret.op = "create_wallet"
    /\ ret.error = ErrExists
    /\ HasActiveRow(ret.user)

\* an instance that has finished starting holds a key
Up(i) == pc[i] \notin {"down", "failed", "keygen", "keywrite"}

\* the row's secret opens under key to an issued phrase that re-derives the
\* row's three addresses
Redecrypts(key, r) ==
    LET p == FernetDecrypt(key, r.encrypted_mnemonic)
    IN  /\ p # DecryptionError
        /\ p \in issued[r.user_id]
        /\ r.eth_address = Bip44Address(Bip39Seed(p), CoinEthereum)
        /\ r.solana_address = Bip44Address(Bip39Seed(p), CoinSolana)
        /\ r.tron_address = Bip44Address(Bip39Seed(p), CoinTron)

\* C5: in every reachable state, restarts included, each stored record's secret
\* decrypts under the key a running service holds to the phrase generated at
\* creation, and that phrase re-derives the record's three stored addresses.
C5_StoredSecretsDecrypt ==
    \A i \in Inst : Up(i) => \A r \in db : Redecrypts(encryption_key[i], r)

\* C6: over service starts that follow one another the key is generated only
\* by the first start, which finds no key file; every later start loads that
\* key and none fails on a half-written file, and no start writes over an
\* existing key file.
C6_KeyGeneratedOnceThenLoaded ==
    [][/\ keysMade' <= 1
       /\ \A i \in Inst : pc'[i] # "failed"
       /\ keyFile \notin {NoKey, EmptyFile} => keyFile' = keyFile
       /\ keysMade' # keysMade => keyFile = NoKey
       /\ \A i \in Inst :
            (~Up(i) /\ pc'[i] = "idle") =>
                /\ encryption_key'[i] = keyFile'
                /\ keyFile' \notin {NoKey, EmptyFile}]_vars

\* a second start has loaded the key the first start generated, and a wallet
\* sealed before a restart is in the table
C6_Witness ==
    /\ keysMade = 1
    /\ \A i \in Inst : pc[i] = "idle" /\ encryption_key[i] = keyFile
    /\ db # {}
    /\ \E r \in db : r.encrypted_mnemonic.k = keyFile

\* C7: send_transaction and get_wallet_balances succeed only for a user whose
\* wallet is active: called for a user with no record or a deactivated one,
\* send_transaction returns a failure and get_wallet_balances returns no
\* balances, at once; a call goes on to its sender or to its balance requests
\* only when its lookup found an active record, and a successful result comes
\* only from such a call.
C7_OnlyActiveWalletsServe ==
    [][/\ \A i \in Inst, u \in Users :
            (~HasActiveRow(u) /\ \E chain \in SendChains : SendLoad(i, u, chain)) =>
                /\ ret'.op = "send_transaction"
                /\ ret'.user = u
                /\ ~ret'.success
                /\ pc'[i] = "idle"
       /\ \A i \in Inst, u \in Users :
            (~HasActiveRow(u) /\ BalancesStart(i, u)) =>
                /\ ret'.op = "get_wallet_balances"
                /\ ret'.user = u
                /\ ~ret'.found
                /\ pc'[i] = "idle"
       /\ \A i \in Inst :
            (pc[i] # "send" /\ pc'[i] = "send") => HasActiveRow(loc'[i].user)
       /\ \A i \in Inst :
            (pc[i] # "balances" /\ pc'[i] = "balances") => HasActiveRow(loc'[i].user)
       /\ (ret' # ret /\ ret'.op = "send_transaction" /\ ret'.success) =>
            \E i \in Inst : pc[i] = "send" /\ loc[i].user = ret'.user
       /\ (ret' # ret /\ ret'.op = "get_wallet_balances" /\ ret'.found) =>
            \E i \in Inst : pc[i] = "balances" /\ loc[i].user = ret'.user]_vars

\* a send and a balance query for a deactivated wallet have been refused
C7_Witness ==
    /\ ret.op \in {"send_transaction", "get_wallet_balances"}
    /\ ret.user \in deleted
    /\ IF ret.op = "send_transaction" THEN ret.error = ErrNotFound ELSE ~ret.found

\* C8: once delete_wallet(u) has succeeded, get_wallet(u) and
\* get_wallet_with_mnemonic(u) return None in every later state.
C8_NoReadAfterDelete ==
    [][\A i \in Inst, u \in Users :
          (u \in deleted /\ (GetWallet(i, u) \/ GetWalletWithMnemonic(i, u))) =>
              /\ ret'.op \in {"get_wallet", "get_wallet_with_mnemonic"}
              /\ ret'.user = u
              /\ ~ret'.found]_vars

\* a read of a deleted wallet came back empty while the row is still stored
C8_Witness ==
    /\ ret.op \in {"get_wallet", "get_wallet_with_mnemonic"}
    /\ ret.user \in deleted
    /\ ~ret.found
    /\ HasRow(ret.user)

\* the stored part of a row that deactivation must keep
SameWallet(r, q) ==
    /\ q.id = r.id
    /\ q.user_id = r.user_id
    /\ q.encrypted_mnemonic = r.encrypted_mnemonic
    /\ q.eth_address = r.eth_address
    /\ q.solana_address = r.solana_address
    /\ q.tron_address = r.tron_address

\* C9: a wallet only moves NonExistent -> Active (a successful create_wallet)
\* and Active -> Inactive (delete_wallet); delete_wallet returns true exactly
\* when it found an active record, keeps the row with its secret and addresses,
\* and nothing moves a wallet back to Active or removes its row.
C9_WalletStateMachine ==
    [][/\ \A r \in db : \E q \in db' :
            /\ SameWallet(r, q)
            /\ q.is_active => r.is_active
            /\ (r.is_active /\ ~q.is_active) =>
                  /\ ret'.op = "delete_wallet"
                  /\ ret'.result
                  /\ ret'.user = r.user_id
       /\ \A q \in db' :
            (\A r \in db : r.id # q.id) =>
                /\ q.is_active
                /\ ~HasRow(q.user_id)
                /\ ret'.op = "create_wallet"
                /\ ret'.error = ""
                /\ ret'.user = q.user_id
       /\ \A i \in Inst, u \in Users :
            DeleteQuery(i, u) =>
                IF HasActiveRow(u)
                THEN pc'[i] = "delete" /\ ret' = ret
                ELSE ret'.op = "delete_wallet" /\ ~ret'.result /\ pc'[i] = "idle"
       /\ \A i \in Inst :
            DeleteCommit(i) =>
                /\ ret'.op = "delete_wallet"
                /\ ret'.result
                /\ \E q \in db' : q.id = loc[i].id /\ ~q.is_active]_vars

\* a wallet has been deactivated and its row is still in the table
C9_Witness ==
    /\ ret.op = "delete_wallet"
    /\ ret.result
    /\ \E r \in db : r.user_id = ret.user /\ ~r.is_active

\* every stored row carries its secret and all three addresses
CompleteRow(r) ==
    /\ r.encrypted_mnemonic.pt # NoPhrase
    /\ r.encrypted_mnemonic.k # NoKey
    /\ r.eth_address # NoAddress
    /\ r.solana_address # NoAddress
    /\ r.tron_address # NoAddress

\* C10: if any step of create_wallet fails before or at the commit, no record
\* of that call is persisted and the call returns an error; a record is never
\* stored with fewer than the three addresses and the encrypted secret.
C10_CreateIsAtomic ==
    [][/\ \A i \in Inst :
            (CreateFinish(i) /\ (ret'.fault # "none" \/ ret'.error # "")) =>
                /\ db' = db
                /\ ret'.error = ErrFailed
                /\ ret'.mnemonic = NoPhrase
                /\ issued' = issued
       /\ \A r \in db' : CompleteRow(r)]_vars

\* a create_wallet whose Tron derivation failed has left no row for its user
C10_Witness ==
    /\ ret.op = "create_wallet"
    /\ ret.fault = "derive_tron"
    /\ ret.error = ErrFailed
    /\ ~HasRow(ret.user)

\* C11: after creation a record's three addresses and encrypted secret never
\* change, and get_wallet, get_wallet_balances and send_transaction, whether
\* the send succeeds or fails, leave the whole table as it was (a step that
\* changes the table is a step of none of them).
C11_ReadsAndSendsLeaveRecords ==
    [][/\ \A r \in db : \E q \in db' : SameWallet(r, q)
       /\ \/ db' = db
          \/ \A i \in Inst :
               ~(\/ \E u \in Users : GetWallet(i, u)
                 \/ \E u \in Users : BalancesStart(i, u)
                 \/ BalanceRequest(i)
                 \/ BalanceResponseCase(i)
                 \/ \E u \in Users, chain \in SendChains : SendLoad(i, u, chain)
                 \/ \E net \in NetOutcomes : SendStep(i, net, "none"))]_vars

\* a send went through for a user whose record is still stored and active
C11_Witness ==
    /\ ret.op = "send_transaction"
    /\ ret.success
    /\ \E r \in db : r.user_id = ret.user /\ r.is_active /\ r.eth_address # NoAddress

\* the strings a numeric balance is formatted to
NumericBalances == {"5.000000", "0.000000"}

\* C12: for a user with an active wallet get_wallet_balances returns an entry
\* for every supported chain whatever the endpoints do: the call is not ended
\* early, an entry once written is kept, and the returned dictionary has all
\* five chains.
C12_EveryChainHasEntry ==
    [][\A i \in IOInst :
         /\ \A u \in IOUsers :
              (HasActiveRow(u) /\ BalancesStart(i, u)) => pc'[i] = "balances"
         /\ (pc[i] = "balances" /\ pc'[i] = "balances") =>
              \A c \in Chains :
                 loc[i].balances[c] # "-" => loc'[i].balances[c] = loc[i].balances[c]
         /\ (pc[i] = "balances" /\ pc'[i] # "balances") =>
              /\ ret'.op = "get_wallet_balances"
              /\ ret'.found
              /\ \A c \in Chains :
                   /\ ret'.balances[c] # "-"
                   /\ loc[i].balances[c] # "-" => ret'.balances[c] = loc[i].balances[c]]_vars

\* a result with all five entries although some endpoints failed and one answered
C12_Witness ==
    /\ ret.op = "get_wallet_balances"
    /\ ret.found
    /\ ret.answers["ethereum"] = "timeout"
    /\ ret.answers["solana"] = "http_error"
    /\ ret.answers["tron"] = "ok"
    /\ \A c \in Chains : ret.balances[c] \in NumericBalances

\* C13: a chain whose balance endpoint is unreachable, times out or answers
\* with a non-success or malformed response is reported with the Error value
\* and never with a numeric balance.
C13_FailedChainReportedUnavailable ==
    (ret.op = "get_wallet_balances" /\ ret.found) =>
        \A c \in Chains :
            ret.answers[c] # "ok" => ret.balances[c] \notin NumericBalances

\* the request for the chain has gone out
QueryIssued(i, c) == \E k \in 1..loc[i].next : ChainOrder[k] = c

\* C14: within get_wallet_balances no chain's query waits for another chain's
\* answer: while the call waits for an answer, the queries of all the chains
\* have been issued.
C14_QueriesDoNotWait ==
    \A i \in Inst :
        (pc[i] = "balances" /\ loc[i].waiting) =>
            \A c \in Chains : QueryIssued(i, c)

\* the network calls a send made
NetworkCalls(events) == {k \in 1..Len(events) : events[k] \in NetworkSteps}

\* C15: a send with a zero or negative amount returns an error and no network
\* call (lookup or broadcast) is made for it.
C15_NonPositiveAmountRejected ==
    (ret.op = "send_transaction" /\ ret.amount <= 0) =>
        /\ ~ret.success
        /\ NetworkCalls(ret.events) = {}

\* C16: a send to a malformed recipient address is rejected before any network
\* is contacted: no lookup and no broadcast happens for it.
C16_MalformedRecipientRejected ==
    (ret.op = "send_transaction" /\ ret.to = "malformed" /\ ret.amount > 0) =>
        /\ ~ret.success
        /\ NetworkCalls(ret.events) = {}

\* C17: send validates the chain identifier and the amount before it loads and
\* decrypts the secret: a send with an unsupported chain or a bad amount ends
\* without the stored secret having been decrypted.
C17_ValidatedBeforeDecrypt ==
    (ret.op = "send_transaction" /\ (ret.chain \notin Chains \/ ret.amount <= 0)) =>
        \A k \in 1..Len(ret.events) : ret.events[k] # "decrypt"

\* the user's active record is encrypted under another key than the instance holds
Undecryptable(i, u) ==
    \E r \in db : /\ r.user_id = u
                  /\ r.is_active
                  /\ r.encrypted_mnemonic.k # encryption_key[i]

\* C18: when the stored secret of an active wallet cannot be decrypted under
\* the process key, send ends at once with an error that is not the
\* wallet-not-found one, and nothing is signed or broadcast for the call.
C18_DecryptionErrorReported ==
    [][\A i \in Inst, u \in Users :
         (Undecryptable(i, u) /\ \E chain \in SendChains : SendLoad(i, u, chain)) =>
            /\ pc'[i] = "idle"
            /\ ret'.op = "send_transaction"
            /\ ~ret'.success
            /\ ret'.error # ErrNotFound]_vars

\* the result tells its caller that the transfer did not happen
ReportsFailure(r) == r.success = FALSE

\* C19: send never reports failure for a transfer whose broadcast may have
\* succeeded: a broadcast that reached the node and whose answer was lost is
\* not reported the way a rejection is.
C19_UnconfirmedIsNotFailure ==
    (/\ ret.op = "send_transaction"
     /\ ret.net = "lost_reply"
     /\ ret.amount > 0
     /\ ret.events # <<>>
     /\ ret.events[Len(ret.events)] = "net_broadcast") =>
        ~ReportsFailure(ret)

\* success with a transaction hash or failure with an error
StructuredResult(r) ==
    /\ r.op = "send_transaction"
    /\ \/ r.success /\ r.tx_hash # NoTxHash /\ r.error = ""
       \/ ~r.success /\ r.tx_hash = NoTxHash /\ r.error # ""

\* C20: every send_transaction call returns a structured result, success with
\* a transaction hash or failure with an error, whatever step fails: a call
\* either goes on to the chain's sender or returns, and the sender returns.
C20_SendAlwaysReturnsResult ==
    [][\A i \in IOInst :
         /\ \/ pc'[i] = "send"
            \/ StructuredResult(ret')
            \/ \A u \in IOUsers, chain \in IOChains, to \in Recipients,
                  amount \in Amounts, fault \in LoadFaults :
                  ~SendTransactionLoad(i, u, chain, to, amount, fault)
         /\ (pc[i] = "send" /\ pc'[i] # "send") => StructuredResult(ret')]_vars

\* a send that failed at the node while the log handler failed too still
\* returned its failure
C20_Witness ==
    /\ ret.op = "send_transaction"
    /\ ret.fault = "logging"
    /\ ret.net = "rejected"
    /\ ~ret.success
    /\ ret.error = "rejected"

\* the record (a result or the locals of a call) carries a plaintext phrase
HoldsPhrase(rec) == "mnemonic" \in DOMAIN rec /\ rec.mnemonic # NoPhrase

\* C21: of the operations on an existing wallet only send_transaction decrypts
\* the stored secret: no result of get_wallet, get_wallet_balances or
\* delete_wallet and no call of them in progress holds the plaintext phrase,
\* while a send past its load does.
C21_OnlySendDecrypts ==
    /\ ret.op \in {"get_wallet", "get_wallet_balances", "delete_wallet"} => ~HoldsPhrase(ret)
    /\ \A i \in Inst :
         /\ pc[i] \in {"delete", "balances"} => ~HoldsPhrase(loc[i])
         /\ pc[i] = "send" => HoldsPhrase(loc[i])

\* get_wallet answered for a wallet whose phrase a send of the other instance holds
C21_Witness ==
    /\ ret.op = "get_wallet"
    /\ ret.found
    /\ \E i \in Inst : pc[i] = "send" /\ loc[i].user = ret.user

\* C22: the plaintext phrase of a wallet is returned exactly once, by the one
\* successful create_wallet call for its user: a create_wallet result holds a
\* phrase only when the call succeeded, and then the phrase this very call
\* generated and stored; each user is handed at most one phrase; no result of
\* get_wallet, get_wallet_balances or send_transaction holds a phrase.
C22_PhraseReturnedOnce ==
    /\ ret.op \in {"get_wallet", "get_wallet_balances", "send_transaction"} => ~HoldsPhrase(ret)
    /\ (ret.op = "create_wallet" /\ ret.mnemonic # NoPhrase) =>
          /\ ret.error = ""
          /\ ret.mnemonic = ret.gen
          /\ issued[ret.user] = {ret.mnemonic}
          /\ \E r \in db : r.user_id = ret.user /\ r.encrypted_mnemonic.pt = ret.mnemonic
    /\ (ret.op = "create_wallet" /\ ret.mnemonic = NoPhrase) => ret.error # ""
    /\ \A u \in Users : Cardinality(issued[u]) <= 1

\* a send went through for a user whose phrase had been handed out at creation
C22_Witness ==
    /\ ret.op = "send_transaction"
    /\ ret.success
    /\ issued[ret.user] # {}
    /\ ~HoldsPhrase(ret)

\* the columns of user_wallet_keys that the service writes
WalletColumns ==
    {"id", "user_id", "encrypted_mnemonic", "eth_address", "solana_address",
     "tron_address", "is_active"}

\* C23: in every reachable state a stored record holds the phrase only as
\* ciphertext: encrypted_mnemonic is a token sealed under a key and opens
\* under no other key, the address columns are not the phrase, and the record
\* has no further column.
C23_PhraseStoredAsCiphertext ==
    \A r \in db :
        /\ DOMAIN r = WalletColumns
        /\ r.encrypted_mnemonic.k # NoKey
        /\ \A key \in 0..MaxKeys :
              key # r.encrypted_mnemonic.k =>
                 FernetDecrypt(key, r.encrypted_mnemonic) = DecryptionError
        /\ \A a \in {r.eth_address, r.solana_address, r.tron_address} :
              a # r.encrypted_mnemonic.pt

\* a running instance holds another key than a stored record is sealed under
C23_Witness ==
    \E r \in db, i \in Inst :
        /\ pc[i] = "idle"
        /\ encryption_key[i] # r.encrypted_mnemonic.k
        /\ FernetDecrypt(encryption_key[i], r.encrypted_mnemonic) = DecryptionError

\* the address column the three EVM chains share in the user's record
StoredEvmAddress(u) == (CHOOSE r \in db : r.user_id = u).eth_address

\* C24: create_wallet and get_wallet report one and the same address, the
\* stored one, for ethereum, bsc and polygon, and a send on any of the three
\* uses that address as sender; the chain of the send is the requested one.
C24_OneEvmAddress ==
    /\ ((ret.op = "create_wallet" /\ ret.error = "") \/ (ret.op = "get_wallet" /\ ret.found)) =>
          \A c \in EvmChains : ret.addresses[c] = StoredEvmAddress(ret.user)
    /\ (ret.op = "send_transaction" /\ ret.chain \in EvmChains /\ ret.from # NoAddress) =>
          ret.from = StoredEvmAddress(ret.user)
    /\ \A i \in Inst :
          (pc[i] = "send" /\ loc[i].chain \in EvmChains) =>
              loc[i].from = StoredEvmAddress(loc[i].user)

\* a send on polygon went out from the address stored for ethereum
C24_Witness ==
    /\ ret.op = "send_transaction"
    /\ ret.chain = "polygon"
    /\ ret.success
    /\ ret.from = StoredEvmAddress(ret.user)

\* the address column of the chain's family in the user's record
StoredAddress(u, chain) ==
    LET r == CHOOSE r \in db : r.user_id = u
    IN  IF chain = "solana" THEN r.solana_address
        ELSE IF chain = "tron" THEN r.tron_address
        ELSE r.eth_address

\* C25: for each supported chain send_transaction derives the signing key from
\* the decrypted phrase with the seed expansion and derivation path
\* create_wallet used for the stored address of the chain's family, and passes
\* that stored address as sender: the signer's address is the stored sender.
C25_SignerIsStoredSender ==
    (ret.op = "send_transaction" /\ ret.signer # NoAddress) =>
        /\ ret.from = StoredAddress(ret.user, ret.chain)
        /\ ret.signer = ret.from

\* a Tron transfer went out signed by the key of the stored Tron address
C25_Witness ==
    /\ ret.op = "send_transaction"
    /\ ret.chain = "tron"
    /\ ret.success
    /\ ret.signer = StoredAddress(ret.user, "tron")

\* the send got as far as handing a signed transfer to the node
BroadcastTried(r) == \E k \in 1..Len(r.events) : r.events[k] = "net_broadcast"

\* C27: two sends by one user on one EVM chain, the second issued before the
\* first transfer is in a block, are signed with different nonces: a send never
\* signs with the nonce of a transfer of the same sender that is still waiting.
C27_PendingNonceNotReused ==
    [][\A i \in IOInst :
         (/\ pc[i] = "send"
          /\ pc'[i] = "idle"
          /\ ret'.op = "send_transaction"
          /\ ret'.chain \in EvmChains
          /\ BroadcastTried(ret'))
         => ~\E t \in ledger : /\ ~t.mined
                               /\ t.chain = ret'.chain
                               /\ t.from = ret'.signer
                               /\ t.nonce = ret'.nonce]_vars

\* C28: every EVM transfer that send signs carries the chain id of the
\* requested chain, so that it is no valid transfer on another EVM chain: the
\* signed transfer has a chain id, and not the one of another EVM chain.
C28_SignedWithChainId ==
    (ret.op = "send_transaction" /\ ret.chain \in EvmChains /\ BroadcastTried(ret)) =>
        /\ ret.chain_id # NoChainId
        /\ \A c \in EvmChains \ {ret.chain} : ret.chain_id # SignedChainId(c)

\* C26: once a user's wallet has been deactivated, every later create_wallet
\* for that user is rejected with the already-have-a-wallet error and stores
\* nothing, get_wallet returns None, and no step gives the user an active
\* wallet again.
C26_InactiveIsTerminal ==
    [][\A u \in Users :
         (HasRow(u) /\ ~HasActiveRow(u)) =>
            /\ ~\E r \in db' : r.user_id = u /\ r.is_active
            /\ \A i \in Inst :
                 /\ CreateQuery(i, u) =>
                       /\ ret'.op = "create_wallet"
                       /\ ret'.error = ErrExists
                       /\ ret'.mnemonic = NoPhrase
                       /\ pc'[i] = "idle"
                       /\ db' = db
                 /\ GetWallet(i, u) => ~ret'.found]_vars

\* a create_wallet for a user whose wallet was deleted got the already-exists error
C26_Witness ==
    /\ ret.op = "create_wallet"
    /\ ret.error = ErrExists
    /\ ret.user \in deleted
    /\ HasRow(ret.user)
    /\ ~HasActiveRow(ret.user)

\* C29: send_command calls send_transaction only after it has checked, in
\* this order, that the user has an active wallet, that the chain is supported,
\* that the amount is greater than 0 and that the fetched balance of the chain
\* is at least the amount; after a failed balance query of the chain it does
\* not call it.
C29_SendOnlyAfterChecks ==
    \A i \in IOInst :
        pc[i] = "cmd_send" =>
            /\ loc[i].checks = <<"wallet", "chain", "amount", "balance">>
            /\ loc[i].chain \in Chains
            /\ FloatLT(0, loc[i].amount)
            /\ FloatLE(loc[i].amount, ParseBalance(loc[i].balance))
            /\ loc[i].answers[loc[i].chain] = "ok"

\* C30: when service instances start together with no key file, then, once
\* no start is under way, every instance that has loaded its key holds the key
\* left in the key file, and every wallet created by any of them is sealed
\* under that key, so that it decrypts after a restart.
C30_ConcurrentStartsShareKey ==
    (\A i \in Inst : pc[i] \notin {"keygen", "keywrite"}) =>
        /\ \A i \in Inst :
             encryption_key[i] # NoKey => encryption_key[i] = keyFile
        /\ \A r \in db :
             FernetDecrypt(keyFile, r.encrypted_mnemonic) # DecryptionError

====
